---- MODULE Spec2Model ----
(***************************************************************************)
(* Model of the notebook "1.0 Download and clean the StackOverflow 2017    *)
(* survey data": the two cell normalizers, the column bucket table, the    *)
(* completeness assert, cleanup_df, the train/eval split and the emission  *)
(* of schema.json and transforms.json.                                     *)
(*                                                                         *)
(* A Python value is a pair <<type, payload>>.  A str is a sequence of     *)
(* character codes 0..255 (the notebook runs on Python 2, where a str is a *)
(* byte string and filter() over a str returns a str).                     *)
(***************************************************************************)
EXTENDS Integers, Sequences, FiniteSets, TLC

VARIABLES
  \* --- one call chain of a cell normalizer (specification SpecNorm) ---
  nfn,                   \* the normalizer under call, or "none"
  narg,                  \* the value passed to the first call
  nres,                  \* results of the successive calls, f(v), f(f(v))
  \* --- the inputs of a notebook run ---
  results_isfile,        \* os.path.isfile(survey_results_path)
  schema_isfile,         \* os.path.isfile(survey_schema_path)
  schema_csv,            \* column names in survey_results_schema.csv
  results_csv,           \* parsed data rows of survey_results_public.csv
  reg_cell,              \* the append statements of the registration cell
  \* --- the notebook's globals ---
  pc,                    \* the next cell to run, "done" or "halted"; in
                         \* SpecTable <<cell, number of the next statement>>
  error,                 \* <<cell, exception>> that halted the run, or <<>>
  stdout,                \* lines printed so far
  headers,
  single_label_cols,
  numerical_cols,
  multi_label_cols,
  key_cols,
  target_col,
  df_all,
  random_index,
  df_train,
  df_eval,
  \* --- the output files: Absent or their content ---
  train_csv,
  eval_csv,
  schema_json,
  transforms_json

norm_vars == <<nfn, narg, nres>>
input_vars == <<results_isfile, schema_isfile, schema_csv, results_csv, reg_cell>>
bucket_vars == <<single_label_cols, numerical_cols, multi_label_cols, key_cols, target_col>>
frame_vars == <<df_all, random_index, df_train, df_eval>>
file_vars == <<train_csv, eval_csv, schema_json, transforms_json>>
run_vars == <<pc, error, stdout, headers>>
vars == <<norm_vars, input_vars, run_vars, bucket_vars, frame_vars, file_vars>>

(***************************************************************************)
(* Python values                                                           *)
(***************************************************************************)
PyStr(s) == <<"str", s>>
PyInt(n) == <<"int", n>>
PyFloat(x) == <<"float", x>>
NaN == PyFloat("nan")
Raise(exc) == <<"raise", exc>>
None == <<"NoneType">>
Absent == <<"absent">>

IsStr(v) == v[1] = "str"
IsRaise(v) == v[1] = "raise"

\* isinstance(v, float) and isinstance(v, (float, int))
isinstance(v, types) == v[1] \in types

\* character codes used by the source's string literals
SP == 32
SEMI == 59
USCORE == 95

\* string.printable: digits, letters, punctuation and whitespace
Printable == (9..13) \union (32..126)

(***************************************************************************)
(* str.replace(old, new): every non-overlapping occurrence of old, scanned *)
(* left to right, is replaced by new.                                      *)
(***************************************************************************)
RECURSIVE replace_first(_, _, _)
replace_first(s, old, new) ==
  IF Len(s) < Len(old) THEN s
  ELSE IF SubSeq(s, 1, Len(old)) = old
       THEN new \o SubSeq(s, Len(old) + 1, Len(s))
       ELSE <<Head(s)>> \o replace_first(Tail(s), old, new)

RECURSIVE replace(_, _, _)
replace(s, old, new) ==
  IF Len(s) < Len(old) THEN s
  ELSE IF SubSeq(s, 1, Len(old)) = old
       THEN new \o replace(SubSeq(s, Len(old) + 1, Len(s)), old, new)
       ELSE <<Head(s)>> \o replace(Tail(s), old, new)

\* filter(pred, str): the characters satisfying pred, in order
RECURSIVE filter_prefix(_, _)
filter_prefix(keep, s) ==
  IF s = <<>> THEN <<>>
  ELSE IF Head(s) \in keep THEN <<Head(s)>> \o filter_prefix(keep, Tail(s)) ELSE <<>>

RECURSIVE filter(_, _)
filter(keep, s) ==
  IF s = <<>> THEN <<>>
  ELSE (IF Head(s) \in keep THEN <<Head(s)>> ELSE <<>>) \o filter(keep, Tail(s))

(***************************************************************************)
(* The two cell normalizers                                                *)
(***************************************************************************)
update_multi_label_cols_keep_blank(v) ==
  IF isinstance(v, {"float"}) THEN v
  ELSE IF ~IsStr(v) THEN Raise("AttributeError")
  ELSE PyStr(replace(replace(v[2], <<SP>>, <<USCORE>>), <<SEMI>>, <<SP>>))

update_multi_label_cols(v) ==
  IF isinstance(v, {"float"}) THEN v
  ELSE IF ~IsStr(v) THEN Raise("AttributeError")   \* v.replace on a non-str
  ELSE PyStr(replace(replace(replace(v[2], <<SEMI, SP>>, <<SEMI>>),
                             <<SP>>, <<USCORE>>),
                     <<SEMI>>, <<SP>>))

convert_to_ascii(v) ==
  IF isinstance(v, {"float", "int"}) THEN v
  ELSE PyStr(filter(Printable, v[2]))

(***************************************************************************)
(* Inputs of the normalizer calls                                          *)
(***************************************************************************)
MaxLen == 4
MaxCalls == 2

\* NUL, space, ';', '_', 'a' and a Latin-1 e-acute
NormChars == {0, SP, SEMI, USCORE, 97, 233}

RECURSIVE StringsUpTo(_, _)
StringsUpTo(chars, n) ==
  IF n = 0 THEN {<<>>}
  ELSE LET shorter == StringsUpTo(chars, n - 1)
       IN  shorter \union {Append(s, c) : s \in {t \in shorter : Len(t) = n - 1}, c \in chars}

\* "Stock options; Annual bonus; Vacation/days off; Equipment; Meals"
DocBefore ==
  <<
     83, 116, 111, 99, 107, 32, 111, 112, 116, 105, 111, 110, 115, 59, 32, 65,
     110, 110, 117, 97, 108, 32, 98, 111, 110, 117, 115, 59, 32, 86, 97, 99,
     97, 116, 105, 111, 110, 47, 100, 97, 121, 115, 32, 111, 102, 102, 59, 32,
     69, 113, 117, 105, 112, 109, 101, 110, 116, 59, 32, 77, 101, 97, 108, 115 >>
\* "Stock_options Annual_bonus Vacation/days_off Equipment Meals"
DocAfter ==
  <<
     83, 116, 111, 99, 107, 95, 111, 112, 116, 105, 111, 110, 115, 32, 65, 110,
     110, 117, 97, 108, 95, 98, 111, 110, 117, 115, 32, 86, 97, 99, 97, 116,
     105, 111, 110, 47, 100, 97, 121, 115, 95, 111, 102, 102, 32, 69, 113, 117,
     105, 112, 109, 101, 110, 116, 32, 77, 101, 97, 108, 115 >>
\* "Stock options; Annual bonus"
StockBefore ==
  <<
     83, 116, 111, 99, 107, 32, 111, 112, 116, 105, 111, 110, 115, 59, 32, 65,
     110, 110, 117, 97, 108, 32, 98, 111, 110, 117, 115 >>
\* "Stock_options Annual_bonus"
StockAfter ==
  <<
     83, 116, 111, 99, 107, 95, 111, 112, 116, 105, 111, 110, 115, 32, 65, 110,
     110, 117, 97, 108, 95, 98, 111, 110, 117, 115 >>
\* "Stock_options_Annual_bonus"
StockAfterTwice ==
  <<
     83, 116, 111, 99, 107, 95, 111, 112, 116, 105, 111, 110, 115, 95, 65, 110,
     110, 117, 97, 108, 95, 98, 111, 110, 117, 115 >>
\* "Vacation/days off; Equipment; Meals"
VacationBefore ==
  <<
     86, 97, 99, 97, 116, 105, 111, 110, 47, 100, 97, 121, 115, 32, 111, 102,
     102, 59, 32, 69, 113, 117, 105, 112, 109, 101, 110, 116, 59, 32, 77, 101,
     97, 108, 115 >>
\* "Vacation/days_off Equipment Meals"
VacationAfter ==
  <<
     86, 97, 99, 97, 116, 105, 111, 110, 47, 100, 97, 121, 115, 95, 111, 102,
     102, 32, 69, 113, 117, 105, 112, 109, 101, 110, 116, 32, 77, 101, 97, 108,
     115 >>

NonText == {PyInt(5), PyFloat("3.14"), NaN}
NormInputs ==
  {PyStr(s) : s \in StringsUpTo(NormChars, MaxLen) \union {DocBefore, StockBefore, VacationBefore}}
  \union NonText

Normalizers == {"update_multi_label_cols", "convert_to_ascii"}
Apply(f, v) ==
  IF f = "update_multi_label_cols" THEN update_multi_label_cols(v) ELSE convert_to_ascii(v)

\* the values of the notebook's variables while only a normalizer is called
RunIdle ==
  /\ results_isfile = FALSE /\ schema_isfile = FALSE
  /\ schema_csv = <<>> /\ results_csv = <<>> /\ reg_cell = <<>>
  /\ pc = "idle" /\ error = <<>> /\ stdout = <<>> /\ headers = <<>>
  /\ single_label_cols = <<>> /\ numerical_cols = <<>>
  /\ multi_label_cols = <<>> /\ key_cols = <<>> /\ target_col = None
  /\ df_all = None /\ random_index = None /\ df_train = None /\ df_eval = None
  /\ train_csv = Absent /\ eval_csv = Absent
  /\ schema_json = Absent /\ transforms_json = Absent

NormInit ==
  /\ nfn = "none"
  /\ narg \in NormInputs
  /\ nres = <<>>
  /\ RunIdle

\* f(v) for the first call, f applied to the previous result afterwards;
\* a call that raised ends the chain
Call(f) ==
  /\ pc = "idle"
  /\ nfn \in {"none", f}
  /\ Len(nres) < MaxCalls
  /\ IF nres = <<>> THEN TRUE ELSE ~IsRaise(nres[Len(nres)])
  /\ nfn' = f
  /\ nres' = Append(nres, Apply(f, IF nres = <<>> THEN narg ELSE nres[Len(nres)]))
  /\ UNCHANGED <<narg, input_vars, run_vars, bucket_vars, frame_vars, file_vars>>

CallUpdateMultiLabelCols == Call("update_multi_label_cols")
CallConvertToAscii == Call("convert_to_ascii")

NormNext == CallUpdateMultiLabelCols \/ CallConvertToAscii
SpecNorm == NormInit /\ [][NormNext]_vars

(***************************************************************************)
(* Claims about the cell normalizers (specification SpecNorm)              *)
(***************************************************************************)
Called(f, n) == nfn = f /\ Len(nres) >= n
Chars(s) == {s[i] : i \in 1..Len(s)}
Count(s, c) == Cardinality({i \in 1..Len(s) : s[i] = c})
\* the position, among the positions P, of position i
Rank(P, i) == Cardinality({j \in P : j <= i})

\* C1 as claimed: for every string v, update_multi_label_cols(
\* update_multi_label_cols(v)) = update_multi_label_cols(v).
C1_Idempotent ==
  (Called("update_multi_label_cols", 2) /\ IsStr(narg)) => nres[2] = nres[1]

\* C1 as amended: the second application changes nothing exactly when v
\* holds no ';'; "Stock options; Annual bonus" gives "Stock_options
\* Annual_bonus" and then "Stock_options_Annual_bonus".
C1_IdempotentWithoutSemicolon ==
  (Called("update_multi_label_cols", 2) /\ IsStr(narg)) =>
     /\ (nres[2] = nres[1]) <=> (SEMI \notin Chars(narg[2]))
     /\ narg = PyStr(StockBefore) =>
          nres[1] = PyStr(StockAfter) /\ nres[2] = PyStr(StockAfterTwice)

C1_Witness ==
  /\ Called("update_multi_label_cols", 2) /\ IsStr(narg)
  /\ SP \in Chars(narg[2]) /\ SEMI \notin Chars(narg[2])
  /\ nres[1] # narg /\ nres[2] = nres[1]

\* C2: an int, a float or NaN passed to either normalizer comes back
\* unchanged (same type, same value) and the call does not raise.
C2_NumericPassThrough ==
  (nfn \in Normalizers /\ Len(nres) >= 1 /\ narg \in NonText) => nres[1] = narg

\* C6: on a str, update_multi_label_cols drops every space that directly
\* follows a ';', turns every other space into '_' and every ';' into a
\* space, so the result has one space per ';' of the input; the docstring's
\* list becomes "Stock_options Annual_bonus Vacation/days_off Equipment Meals".
TokenChar(c) == IF c = SEMI THEN SP ELSE IF c = SP THEN USCORE ELSE c
KeptPos(s) == {i \in 1..Len(s) : ~(s[i] = SP /\ i > 1 /\ s[IF i > 1 THEN i - 1 ELSE 1] = SEMI)}
C6_TokenJoin ==
  (Called("update_multi_label_cols", 1) /\ IsStr(narg)) =>
     LET s == narg[2]
         o == nres[1][2]
     IN  /\ IsStr(nres[1])
         /\ Len(o) = Cardinality(KeptPos(s))
         /\ \A i \in KeptPos(s) : o[Rank(KeptPos(s), i)] = TokenChar(s[i])
         /\ Count(o, SP) = Count(s, SEMI)
         /\ s = DocBefore => o = DocAfter
         /\ s = StockBefore => o = StockAfter
         /\ s = VacationBefore => o = VacationAfter

C6_Witness ==
  /\ Called("update_multi_label_cols", 1)
  /\ narg = PyStr(DocBefore) /\ nres[1] = PyStr(DocAfter)

\* C7 as claimed: convert_to_ascii on a str removes exactly the characters
\* outside string.printable, keeps the order, is idempotent, and is the
\* identity on every str made of the codes 0..127.
PrintablePos(s) == {i \in 1..Len(s) : s[i] \in Printable}
ExactlyNonPrintableRemoved(s, o) ==
  /\ Len(o) = Cardinality(PrintablePos(s))
  /\ \A i \in PrintablePos(s) : o[Rank(PrintablePos(s), i)] = s[i]
NumCols == 6
MaxRows == 2

\* schema order of the followed columns
Columns ==
  <<"Respondent", "Professional", "Currency", "IDE", "Race", "Salary", "ExpectedSalary">>
Universe == SubSeq(Columns, 1, IF NumCols < Len(Columns) THEN NumCols ELSE Len(Columns))
Range(seq) == {seq[i] : i \in 1..Len(seq)}

\* the source's append statements for these columns
SourceCell ==
  << <<"key_cols", "Respondent">>, <<"single_label_cols", "Currency">>,
     <<"multi_label_cols", "IDE">>, <<"multi_label_cols", "Race">>,
     <<"numerical_cols", "Salary">>, <<"numerical_cols", "ExpectedSalary">> >>
BaseCell == SelectSeq(SourceCell, LAMBDA st : st[2] \in Range(Universe))
Lists == {"key_cols", "single_label_cols", "multi_label_cols", "numerical_cols"}

Drop(cell, i) == SubSeq(cell, 1, i - 1) \o SubSeq(cell, i + 1, Len(cell))
Duplicate(cell, i) == SubSeq(cell, 1, i) \o SubSeq(cell, i, Len(cell))
Rebucketed ==
  {[BaseCell EXCEPT ![i] = <<l, BaseCell[i][2]>>] :
     i \in 1..Len(BaseCell), l \in Lists} \ {BaseCell}
Retargeted ==
  {[BaseCell EXCEPT ![i] = <<BaseCell[i][1], c>>] :
     i \in 1..Len(BaseCell), c \in Range(Universe)} \ {BaseCell}
RegCells ==
  {BaseCell} \union Rebucketed \union Retargeted
  \union {Drop(BaseCell, i) : i \in 1..Len(BaseCell)}
  \union {Duplicate(BaseCell, i) : i \in 1..Len(BaseCell)}

\* the header lists: the followed columns, any of them left out
RECURSIVE SubSeqs(_)
SubSeqs(seq) ==
  IF seq = <<>> THEN {<<>>}
  ELSE LET rest == SubSeqs(Tail(seq))
       IN  rest \union {<<Head(seq)>> \o r : r \in rest}

\* ";\xe9 ", "a b; a", a missing value, an int and a float
CellValues ==
  {PyStr(<<SEMI, 233, SP>>), PyStr(<<97, SP, 98, SEMI, SP, 97>>), NaN, PyInt(5), PyFloat("3.14")}
SampleRows(hdrs) == {[i \in 1..Len(hdrs) |-> v] : v \in CellValues}
RECURSIVE SeqsUpTo(_, _)
SeqsUpTo(S, n) ==
  IF n = 0 THEN {<<>>}
  ELSE LET shorter == SeqsUpTo(S, n - 1)
       IN  shorter \union {Append(q, x) : q \in {t \in shorter : Len(t) = n - 1}, x \in S}

Init ==
  /\ nfn = "none" /\ narg = None /\ nres = <<>>
  /\ results_isfile \in BOOLEAN
  /\ schema_isfile \in BOOLEAN
  /\ schema_csv \in SubSeqs(Universe)
  /\ reg_cell \in RegCells
  /\ results_csv \in
       IF /\ results_isfile /\ schema_isfile /\ schema_csv = Universe
          /\ reg_cell \in {BaseCell} \union Rebucketed
       THEN SeqsUpTo(SampleRows(schema_csv), MaxRows)
       ELSE {<<>>}
  /\ pc = "check_files" /\ error = <<>> /\ stdout = <<>> /\ headers = None
  /\ single_label_cols = None /\ numerical_cols = None
  /\ multi_label_cols = None /\ key_cols = None /\ target_col = None
  /\ df_all = None /\ random_index = None /\ df_train = None /\ df_eval = None
  /\ train_csv = Absent /\ eval_csv = Absent
  /\ schema_json = Absent /\ transforms_json = Absent

\* an uncaught exception ends the run
Halt(cell, exc) ==
  /\ pc' = "halted"
  /\ error' = <<cell, exc>>

(***************************************************************************)
(* Cell 7: the missing-files message                                       *)
(***************************************************************************)
MissingFilesMessage ==
  << "Error: the data files are missing!",
     "Download the data and schema files from https://www.kaggle.com/stackoverflow/so-survey-2017",
     "and put them into the folder WORKSPACE_PATH" >>

CheckFiles ==
  /\ pc = "check_files"
  /\ stdout' = IF ~results_isfile \/ ~schema_isfile
               THEN stdout \o MissingFilesMessage ELSE stdout
  /\ pc' = "read_headers"
  /\ UNCHANGED <<error, headers, norm_vars, input_vars, bucket_vars, frame_vars, file_vars>>

(***************************************************************************)
(* Cell 8: headers = first field of every schema row                       *)
(***************************************************************************)
open_anyway(isfile) == "ok"

open(isfile) == IF isfile THEN "ok" ELSE "IOError"

ReadHeaders ==
  /\ pc = "read_headers"
  /\ IF open(schema_isfile) = "ok"
     THEN /\ headers' = schema_csv
          /\ pc' = "register"
          /\ UNCHANGED error
     ELSE /\ Halt("read_headers", "IOError")
          /\ UNCHANGED headers
  /\ UNCHANGED <<stdout, norm_vars, input_vars, bucket_vars, frame_vars, file_vars>>

(***************************************************************************)
(* Cells 10 and 11: empty lists, then the append statements                *)
(***************************************************************************)
\* the list named l after the statements of cell have run
Appended(cell, l) ==
  LET sts == SelectSeq(cell, LAMBDA st : st[1] = l)
  IN  [i \in 1..Len(sts) |-> sts[i][2]]

Register ==
  /\ pc = "register"
  /\ key_cols' = Appended(reg_cell, "key_cols")
  /\ single_label_cols' = Appended(reg_cell, "single_label_cols")
  /\ multi_label_cols' = Appended(reg_cell, "multi_label_cols")
  /\ numerical_cols' = Appended(reg_cell, "numerical_cols")
  /\ target_col' = "Professional"
  /\ pc' = "assert"
  /\ UNCHANGED <<error, stdout, headers, norm_vars, input_vars, frame_vars, file_vars>>

(***************************************************************************)
(* Cell 12: the completeness assert                                        *)
(***************************************************************************)
CountMatches_at_least ==
  Len(single_label_cols \o multi_label_cols \o numerical_cols \o key_cols \o <<target_col>>)
    >= Len(headers)

CountMatches ==
  Len(single_label_cols \o multi_label_cols \o numerical_cols \o key_cols \o <<target_col>>)
    = Len(headers)

AssertCount ==
  /\ pc = "assert"
  /\ IF CountMatches
     THEN pc' = "clean" /\ UNCHANGED error
     ELSE Halt("assert", "AssertionError")
  /\ UNCHANGED <<stdout, headers, norm_vars, input_vars, bucket_vars, frame_vars, file_vars>>

(***************************************************************************)
(* Cell 13: read the data and clean it in place.  A data frame is the      *)
(* sequence of its rows, each an index label and a cell per column.        *)
(***************************************************************************)
IndexOf(seq, x) == CHOOSE i \in 1..Len(seq) : seq[i] = x
InList(x, lst) == \E i \in 1..Len(lst) : lst[i] = x

read_csv(rows, names) ==
  [i \in 1..Len(rows) |->
     [idx |-> i - 1,
      cells |-> [h \in Range(names) |-> rows[i][IndexOf(names, h)]]]]

\* df[col] = df[col].apply(f): the column is assigned only if no call raised
ApplyColumn(res, col, f) ==
  IF res.exc # "none" THEN res
  ELSE LET df == res.df
           out == [i \in 1..Len(df) |-> Apply(f, df[i].cells[col])]
       IN  IF \E i \in 1..Len(df) : IsRaise(out[i])
           THEN [df |-> df, exc |-> (out[CHOOSE i \in 1..Len(df) : IsRaise(out[i])])[2]]
           ELSE [df |-> [i \in 1..Len(df) |-> [df[i] EXCEPT !.cells[col] = out[i]]],
                 exc |-> "none"]

\* the body of the loop of cleanup_df
cleanup_col(res, col) ==
  LET d1 == IF col = "Currency" THEN ApplyColumn(res, col, "convert_to_ascii") ELSE res
      d2 == IF col = "Race" THEN ApplyColumn(d1, col, "convert_to_ascii") ELSE d1
  IN  IF InList(col, multi_label_cols)
      THEN ApplyColumn(d2, col, "update_multi_label_cols") ELSE d2

RECURSIVE cleanup_loop(_, _)
cleanup_loop(res, cols) ==
  IF cols = <<>> \/ res.exc # "none" THEN res
  ELSE cleanup_loop(cleanup_col(res, Head(cols)), Tail(cols))

cleanup_df(df) == cleanup_loop([df |-> df, exc |-> "none"], headers)

CleanData ==
  /\ pc = "clean"
  /\ IF open(results_isfile) # "ok"
     THEN Halt("clean", "IOError") /\ UNCHANGED df_all
     ELSE LET res == cleanup_df(read_csv(results_csv, headers))
          IN  /\ df_all' = res.df
              /\ IF res.exc = "none"
                 THEN pc' = "random_index" /\ UNCHANGED error
                 ELSE Halt("clean", res.exc)
  /\ UNCHANGED <<stdout, headers, norm_vars, input_vars, bucket_vars,
                 random_index, df_train, df_eval, file_vars>>

(***************************************************************************)
(* Cells 14 and 15: one random draw per row, then the two selections       *)
(***************************************************************************)
RandomIndex ==
  /\ pc = "random_index"
  /\ random_index' \in [1..Len(df_all) -> BOOLEAN]
  /\ pc' = "split"
  /\ UNCHANGED <<error, stdout, headers, norm_vars, input_vars, bucket_vars,
                 df_all, df_train, df_eval, file_vars>>

\* df[mask]: the rows whose mask entry is True, in order
RECURSIVE Select(_, _)
Select(df, mask) ==
  IF df = <<>> THEN <<>>
  ELSE (IF Head(mask) THEN <<Head(df)>> ELSE <<>>) \o Select(Tail(df), Tail(mask))

same_mask(x) == x

logical_not(x) == [i \in 1..Len(x) |-> ~x[i]]

Split ==
  /\ pc = "split"
  /\ df_train' = Select(df_all, random_index)
  /\ df_eval' = Select(df_all, logical_not(random_index))
  /\ pc' = "save"
  /\ UNCHANGED <<error, stdout, headers, norm_vars, input_vars, bucket_vars,
                 df_all, random_index, file_vars>>

(***************************************************************************)
(* Cell 16: the two CSV files, without header line and index column        *)
(***************************************************************************)
to_csv(df) == [i \in 1..Len(df) |-> [j \in 1..Len(headers) |-> df[i].cells[headers[j]]]]

SaveCsv ==
  /\ pc = "save"
  /\ train_csv' = to_csv(df_train)
  /\ eval_csv' = to_csv(df_eval)
  /\ pc' = "schema"
  /\ UNCHANGED <<error, stdout, headers, norm_vars, input_vars, bucket_vars,
                 frame_vars, schema_json, transforms_json>>

(***************************************************************************)
(* Cell 17: schema.json                                                    *)
(***************************************************************************)
schema_type(h) ==
  IF InList(h, numerical_cols) THEN "FLOAT"
  ELSE IF InList(h, key_cols) THEN "INTEGER"
  ELSE "STRING"

EmitSchema ==
  /\ pc = "schema"
  /\ schema_json' = [i \in 1..Len(headers) |-> [name |-> headers[i], type |-> schema_type(headers[i])]]
  /\ pc' = "transforms"
  /\ UNCHANGED <<error, stdout, headers, norm_vars, input_vars, bucket_vars,
                 frame_vars, train_csv, eval_csv, transforms_json>>

(***************************************************************************)
(* Cell 18: transforms.json.  The loop leaves at the first header of no    *)
(* list, and the file is written with what the loop has collected.         *)
(***************************************************************************)
transform_of_all_one_hot(h) ==
  IF InList(h, numerical_cols) THEN "scale"
  ELSE IF InList(h, key_cols) THEN "key"
  ELSE IF h = target_col THEN "target"
  ELSE IF InList(h, multi_label_cols) THEN "one_hot"
  ELSE IF InList(h, single_label_cols) THEN "one_hot"
  ELSE "unknown"

transform_of(h) ==
  IF InList(h, numerical_cols) THEN "scale"
  ELSE IF InList(h, key_cols) THEN "key"
  ELSE IF h = target_col THEN "target"
  ELSE IF InList(h, multi_label_cols) THEN "bag_of_words"
  ELSE IF InList(h, single_label_cols) THEN "one_hot"
  ELSE "unknown"

\* the dict and the printed lines after the loop over hs, started with dict d
RECURSIVE transforms_loop(_, _)
transforms_loop(d, hs) ==
  IF hs = <<>> THEN [transforms |-> d, printed |-> <<>>]
  ELSE IF transform_of(Head(hs)) = "unknown"
       THEN [transforms |-> d, printed |-> << <<"Error: %s is an unknown label", Head(hs)>> >>]
       ELSE transforms_loop(
              [k \in DOMAIN d \union {Head(hs)} |->
                 IF k = Head(hs) THEN [transform |-> transform_of(Head(hs))] ELSE d[k]],
              Tail(hs))

EmitTransforms ==
  /\ pc = "transforms"
  /\ LET r == transforms_loop(<<>>, headers)
     IN  /\ transforms_json' = r.transforms
         /\ stdout' = stdout \o r.printed
  /\ pc' = "done"
  /\ UNCHANGED <<error, headers, norm_vars, input_vars, bucket_vars,
                 frame_vars, train_csv, eval_csv, schema_json>>

Next ==
  \/ CheckFiles
  \/ ReadHeaders
  \/ Register
  \/ AssertCount
  \/ CleanData
  \/ RandomIndex
  \/ Split
  \/ SaveCsv
  \/ EmitSchema
  \/ EmitTransforms

Spec == Init /\ [][Next]_vars

(***************************************************************************)
(* Claims about the notebook run (specification Spec)                      *)
(***************************************************************************)
CellOrder ==
  << "check_files", "read_headers", "register", "assert", "clean",
     "random_index", "split", "save", "schema", "transforms", "done" >>
Pos(c) == IndexOf(CellOrder, c)
\* the cell has run, to its end or to an exception
Ran(c) == IF pc = "halted" THEN Pos(error[1]) >= Pos(c) ELSE Pos(pc) > Pos(c)
\* the cell has run to its end
Passed(c) == IF pc = "halted" THEN Pos(error[1]) > Pos(c) ELSE Pos(pc) > Pos(c)

Occurrences(x, lst) == Cardinality({i \in 1..Len(lst) : lst[i] = x})
\* how many times the bucket table assigns column h
Registrations(h) ==
  Occurrences(h, key_cols) + Occurrences(h, single_label_cols)
  + Occurrences(h, multi_label_cols) + Occurrences(h, numerical_cols)
  + (IF h = target_col THEN 1 ELSE 0)
OutputsAbsent ==
  train_csv = Absent /\ eval_csv = Absent /\ schema_json = Absent /\ transforms_json = Absent

\* C3: the completeness check halts the run whenever the bucket table does
\* not cover the header list exactly once: the total count differs from the
\* number of headers, or some header is assigned to no bucket, or some header
\* is assigned more than once.
C3_CheckRejectsBadCover ==
  (Ran("assert") /\ ~(/\ CountMatches
                      /\ \A h \in Range(headers) : Registrations(h) = 1))
     => (pc = "halted" /\ error = <<"assert", "AssertionError">>)

\* C4: if some header belongs to none of the five buckets, the emission of
\* the transforms halts and transforms.json is not written at all.
C4_NoTransformsFileOnUnknownLabel ==
  (Ran("transforms") /\ \E h \in Range(headers) : Registrations(h) = 0)
     => (transforms_json = Absent /\ pc = "halted")

\* C5 as claimed: when an input CSV is absent, the missing-files check
\* prints the hint and the run halts there: no output file is written and no
\* later cell runs.
MissingInput == ~results_isfile \/ ~schema_isfile
HintPrinted ==
  \E i \in 1..Len(stdout) : SubSeq(stdout, i, i + Len(MissingFilesMessage) - 1) = MissingFilesMessage
C5_HaltsAtMissingFilesCheck ==
  MissingInput =>
     /\ OutputsAbsent
     /\ Ran("check_files") => HintPrinted
     /\ ~Ran("read_headers")

\* C5 as amended: when an input CSV is absent, the check prints the hint and
\* the run goes on to the first read of an absent file, which raises: the
\* header-reading cell if the schema CSV is absent, the data-reading cell at
\* the latest otherwise.  No row is cleaned or split and no output file is
\* ever written.
C5_HaltsAtFirstMissingRead ==
  MissingInput =>
     /\ OutputsAbsent
     /\ Ran("check_files") => HintPrinted
     /\ ~schema_isfile => ~Passed("read_headers")
     /\ ~Passed("clean")
     /\ df_all = None /\ df_train = None /\ df_eval = None

C5_Witness ==
  /\ ~results_isfile /\ schema_isfile
  /\ pc = "halted" /\ error = <<"clean", "IOError">>
  /\ HintPrinted /\ headers = schema_csv /\ OutputsAbsent

\* C8: when every header has exactly one bucket, schema.json has one entry
\* per header in header order and transforms.json one directive per header,
\* with Numerical -> (FLOAT, scale), Key -> (INTEGER, key), Target ->
\* (STRING, target), MultiLabelCategorical -> (STRING, bag_of_words) and
\* SingleLabelCategorical -> (STRING, one_hot).
BucketOf(h) ==
  CASE InList(h, numerical_cols) -> "Numerical"
    [] InList(h, key_cols) -> "Key"
    [] h = target_col -> "Target"
    [] InList(h, multi_label_cols) -> "MultiLabelCategorical"
    [] InList(h, single_label_cols) -> "SingleLabelCategorical"
    [] OTHER -> "None"
ClaimedType ==
  [Numerical |-> "FLOAT", Key |-> "INTEGER", Target |-> "STRING",
   MultiLabelCategorical |-> "STRING", SingleLabelCategorical |-> "STRING"]
ClaimedTransform ==
  [Numerical |-> "scale", Key |-> "key", Target |-> "target",
   MultiLabelCategorical |-> "bag_of_words", SingleLabelCategorical |-> "one_hot"]
OneBucketEach == \A h \in Range(headers) : Registrations(h) = 1
AsciiFlagged == {"Currency", "Race"}
ascii_strip(v) == IF IsStr(v) THEN convert_to_ascii(v) ELSE v
token_join(v) == IF IsStr(v) THEN update_multi_label_cols(v) ELSE v
CleanedCell(col, v) ==
  IF col \in AsciiFlagged /\ InList(col, multi_label_cols) THEN token_join(ascii_strip(v))
  ELSE IF col \in AsciiFlagged THEN ascii_strip(v)
  ELSE IF InList(col, multi_label_cols) THEN token_join(v)
  ELSE v
CleanedPerRule ==
  /\ Len(df_all) = Len(results_csv)
  /\ \A i \in 1..Len(df_all) :
        /\ df_all[i].idx = i - 1
        /\ DOMAIN df_all[i].cells = Range(headers)
        /\ \A j \in 1..Len(headers) :
              df_all[i].cells[headers[j]] = CleanedCell(headers[j], results_csv[i][j])
C9_CleanedPerRule ==
  (Ran("clean") /\ results_isfile) => (Passed("clean") /\ CleanedPerRule)

\* C9, the part the code keeps: whenever cleanup_df returns, the cells are as
\* C9 says, the ascii stripping applied before the token join.
C9_CleanedPerRuleOnReturn ==
  Passed("clean") => CleanedPerRule

\* C10: whatever the draws, every row of df_all is in exactly one of df_train
\* and df_eval: the two are disjoint, keep the row order, and together hold
\* the N rows read, none lost and none twice.
Labels(df) == {df[i].idx : i \in 1..Len(df)}
C10_SplitIsPartition ==
  Ran("split") =>
     /\ Len(random_index) = Len(df_all)
     /\ Labels(df_train) \intersect Labels(df_eval) = {}
     /\ Labels(df_train) \union Labels(df_eval) = Labels(df_all)
     /\ Len(df_train) + Len(df_eval) = Len(df_all)
     /\ Len(df_all) = Len(results_csv)
     /\ \A i \in 1..Len(df_all) :
           /\ random_index[i] => \E k \in 1..Len(df_train) : df_train[k] = df_all[i]
           /\ ~random_index[i] => \E k \in 1..Len(df_eval) : df_eval[k] = df_all[i]

C10_Witness ==
  /\ Ran("split") /\ Len(df_all) = 2
  /\ Len(df_train) = 1 /\ Len(df_eval) = 1
  /\ df_train[1].idx # df_eval[1].idx

\* C11: when the header list lacks a configured column, so that the number
\* of headers differs from the number of bucketed columns, the run halts at
\* the completeness assert: the data CSV is never read, no row is cleaned or
\* split and no output file is written.
TableSize ==
  Len(key_cols) + Len(single_label_cols) + Len(multi_label_cols) + Len(numerical_cols) + 1
LacksConfiguredColumn ==
  \E i \in 1..Len(reg_cell) : reg_cell[i][2] \notin Range(headers)
C11_MismatchHaltsBeforeData ==
  (Ran("assert") /\ LacksConfiguredColumn /\ TableSize # Len(headers)) =>
     /\ pc = "halted" /\ error = <<"assert", "AssertionError">>
     /\ df_all = None /\ random_index = None /\ df_train = None /\ df_eval = None
     /\ OutputsAbsent

C11_Witness ==
  /\ pc = "halted" /\ error = <<"assert", "AssertionError">>
  /\ results_isfile /\ schema_isfile
  /\ reg_cell = BaseCell
  /\ "Race" \notin Range(headers) /\ Len(headers) = Len(Universe) - 1
  /\ InList("Race", multi_label_cols)
  /\ df_all = None /\ OutputsAbsent

(***************************************************************************)
(* Cell 11 statement by statement (specification SpecTable): the hard-coded*)
(* column table, lines 226 to 379 of the notebook, one statement a line.   *)
(***************************************************************************)
TableRows ==
  <<
     <<"key_cols", "Respondent">>,
     <<"target_col", "Professional">>,
     <<"single_label_cols", "ProgramHobby">>,
     <<"single_label_cols", "Country">>,
     <<"single_label_cols", "University">>,
     <<"single_label_cols", "EmploymentStatus">>,
     <<"single_label_cols", "FormalEducation">>,
     <<"single_label_cols", "MajorUndergrad">>,
     <<"single_label_cols", "HomeRemote">>,
     <<"single_label_cols", "CompanySize">>,
     <<"single_label_cols", "CompanyType">>,
     <<"single_label_cols", "YearsProgram">>,
     <<"single_label_cols", "YearsCodedJob">>,
     <<"single_label_cols", "YearsCodedJobPast">>,
     <<"multi_label_cols", "DeveloperType">>,
     <<"single_label_cols", "WebDeveloperType">>,
     <<"multi_label_cols", "MobileDeveloperType">>,
     <<"multi_label_cols", "NonDeveloperType">>,
     <<"numerical_cols", "CareerSatisfaction">>,
     <<"numerical_cols", "JobSatisfaction">>,
     <<"single_label_cols", "ExCoderReturn">>,
     <<"single_label_cols", "ExCoderNotForMe">>,
     <<"single_label_cols", "ExCoderBalance">>,
     <<"single_label_cols", "ExCoder10Years">>,
     <<"single_label_cols", "ExCoderBelonged">>,
     <<"single_label_cols", "ExCoderSkills">>,
     <<"single_label_cols", "ExCoderWillNotCode">>,
     <<"single_label_cols", "ExCoderActive">>,
     <<"single_label_cols", "PronounceGIF">>,
     <<"single_label_cols", "ProblemSolving">>,
     <<"single_label_cols", "BuildingThings">>,
     <<"single_label_cols", "LearningNewTech">>,
     <<"single_label_cols", "BoringDetails">>,
     <<"single_label_cols", "JobSecurity">>,
     <<"single_label_cols", "DiversityImportant">>,
     <<"single_label_cols", "AnnoyingUI">>,
     <<"single_label_cols", "FriendsDevelopers">>,
     <<"single_label_cols", "RightWrongWay">>,
     <<"single_label_cols", "UnderstandComputers">>,
     <<"single_label_cols", "SeriousWork">>,
     <<"single_label_cols", "InvestTimeTools">>,
     <<"single_label_cols", "WorkPayCare">>,
     <<"single_label_cols", "KinshipDevelopers">>,
     <<"single_label_cols", "ChallengeMyself">>,
     <<"single_label_cols", "CompetePeers">>,
     <<"single_label_cols", "ChangeWorld">>,
     <<"single_label_cols", "JobSeekingStatus">>,
     <<"numerical_cols", "HoursPerWeek">>,
     <<"single_label_cols", "LastNewJob">>,
     <<"single_label_cols", "AssessJobIndustry">>,
     <<"single_label_cols", "AssessJobRole">>,
     <<"single_label_cols", "AssessJobExp">>,
     <<"single_label_cols", "AssessJobDept">>,
     <<"single_label_cols", "AssessJobTech">>,
     <<"single_label_cols", "AssessJobProjects">>,
     <<"single_label_cols", "AssessJobCompensation">>,
     <<"single_label_cols", "AssessJobOffice">>,
     <<"single_label_cols", "AssessJobCommute">>,
     <<"single_label_cols", "AssessJobRemote">>,
     <<"single_label_cols", "AssessJobLeaders">>,
     <<"single_label_cols", "AssessJobProfDevel">>,
     <<"single_label_cols", "AssessJobDiversity">>,
     <<"single_label_cols", "AssessJobProduct">>,
     <<"single_label_cols", "AssessJobFinances">>,
     <<"multi_label_cols", "ImportantBenefits">>,
     <<"single_label_cols", "ClickyKeys">>,
     <<"multi_label_cols", "JobProfile">>,
     <<"single_label_cols", "ResumePrompted">>,
     <<"single_label_cols", "LearnedHiring">>,
     <<"single_label_cols", "ImportantHiringAlgorithms">>,
     <<"single_label_cols", "ImportantHiringTechExp">>,
     <<"single_label_cols", "ImportantHiringCommunication">>,
     <<"single_label_cols", "ImportantHiringOpenSource">>,
     <<"single_label_cols", "ImportantHiringPMExp">>,
     <<"single_label_cols", "ImportantHiringCompanies">>,
     <<"single_label_cols", "ImportantHiringTitles">>,
     <<"single_label_cols", "ImportantHiringEducation">>,
     <<"single_label_cols", "ImportantHiringRep">>,
     <<"single_label_cols", "ImportantHiringGettingThingsDone">>,
     <<"single_label_cols", "Currency">>,
     <<"single_label_cols", "Overpaid">>,
     <<"single_label_cols", "TabsSpaces">>,
     <<"single_label_cols", "EducationImportant">>,
     <<"multi_label_cols", "EducationTypes">>,
     <<"multi_label_cols", "SelfTaughtTypes">>,
     <<"single_label_cols", "TimeAfterBootcamp">>,
     <<"multi_label_cols", "CousinEducation">>,
     <<"single_label_cols", "WorkStart">>,
     <<"multi_label_cols", "HaveWorkedLanguage">>,
     <<"multi_label_cols", "WantWorkLanguage">>,
     <<"multi_label_cols", "HaveWorkedFramework">>,
     <<"multi_label_cols", "WantWorkFramework">>,
     <<"multi_label_cols", "HaveWorkedDatabase">>,
     <<"multi_label_cols", "WantWorkDatabase">>,
     <<"multi_label_cols", "HaveWorkedPlatform">>,
     <<"multi_label_cols", "WantWorkPlatform">>,
     <<"multi_label_cols", "IDE">>,
     <<"single_label_cols", "AuditoryEnvironment">>,
     <<"multi_label_cols", "Methodology">>,
     <<"single_label_cols", "VersionControl">>,
     <<"single_label_cols", "CheckInCode">>,
     <<"single_label_cols", "ShipIt">>,
     <<"single_label_cols", "OtherPeoplesCode">>,
     <<"single_label_cols", "ProjectManagement">>,
     <<"single_label_cols", "EnjoyDebugging">>,
     <<"single_label_cols", "InTheZone">>,
     <<"single_label_cols", "DifficultCommunication">>,
     <<"single_label_cols", "CollaborateRemote">>,
     <<"multi_label_cols", "MetricAssess">>,
     <<"single_label_cols", "EquipmentSatisfiedMonitors">>,
     <<"single_label_cols", "EquipmentSatisfiedCPU">>,
     <<"single_label_cols", "EquipmentSatisfiedRAM">>,
     <<"single_label_cols", "EquipmentSatisfiedStorage">>,
     <<"single_label_cols", "EquipmentSatisfiedRW">>,
     <<"single_label_cols", "InfluenceInternet">>,
     <<"single_label_cols", "InfluenceWorkstation">>,
     <<"single_label_cols", "InfluenceHardware">>,
     <<"single_label_cols", "InfluenceServers">>,
     <<"single_label_cols", "InfluenceTechStack">>,
     <<"single_label_cols", "InfluenceDeptTech">>,
     <<"single_label_cols", "InfluenceVizTools">>,
     <<"single_label_cols", "InfluenceDatabase">>,
     <<"single_label_cols", "InfluenceCloud">>,
     <<"single_label_cols", "InfluenceConsultants">>,
     <<"single_label_cols", "InfluenceRecruitment">>,
     <<"single_label_cols", "InfluenceCommunication">>,
     <<"single_label_cols", "StackOverflowDescribes">>,
     <<"numerical_cols", "StackOverflowSatisfaction">>,
     <<"multi_label_cols", "StackOverflowDevices">>,
     <<"single_label_cols", "StackOverflowFoundAnswer">>,
     <<"single_label_cols", "StackOverflowCopiedCode">>,
     <<"single_label_cols", "StackOverflowJobListing">>,
     <<"single_label_cols", "StackOverflowCompanyPage">>,
     <<"single_label_cols", "StackOverflowJobSearch">>,
     <<"single_label_cols", "StackOverflowNewQuestion">>,
     <<"single_label_cols", "StackOverflowAnswer">>,
     <<"single_label_cols", "StackOverflowMetaChat">>,
     <<"single_label_cols", "StackOverflowAdsRelevant">>,
     <<"single_label_cols", "StackOverflowAdsDistracting">>,
     <<"single_label_cols", "StackOverflowModeration">>,
     <<"single_label_cols", "StackOverflowCommunity">>,
     <<"single_label_cols", "StackOverflowHelpful">>,
     <<"single_label_cols", "StackOverflowBetter">>,
     <<"single_label_cols", "StackOverflowWhatDo">>,
     <<"single_label_cols", "StackOverflowMakeMoney">>,
     <<"single_label_cols", "Gender">>,
     <<"single_label_cols", "HighestEducationParents">>,
     <<"multi_label_cols", "Race">>,
     <<"single_label_cols", "SurveyLong">>,
     <<"single_label_cols", "QuestionsInteresting">>,
     <<"single_label_cols", "QuestionsConfusing">>,
     <<"single_label_cols", "InterestedAnswers">>,
     <<"numerical_cols", "Salary">>,
     <<"numerical_cols", "ExpectedSalary">> >>

\* the table with the fourth statement a copy of the third
RegistrationCell_copied_line == [TableRows EXCEPT ![4] = TableRows[3]]

RegistrationCell == TableRows

\* in this specification pc is <<cell, number of the next statement>>
Executed == pc[2] - 1

\* cell 10 has run: the four lists are empty and target_col is None; the
\* schema CSV of the survey lists the columns in the order of the table
TableInit ==
  /\ nfn = "none" /\ narg = None /\ nres = <<>>
  /\ results_isfile = TRUE /\ schema_isfile = TRUE
  /\ schema_csv = [i \in 1..Len(RegistrationCell) |-> RegistrationCell[i][2]]
  /\ results_csv = <<>>
  /\ reg_cell = SelectSeq(RegistrationCell, LAMBDA st : st[1] \in Lists)
  /\ pc = <<"registering", 1>> /\ error = <<>> /\ stdout = <<>>
  /\ headers = schema_csv
  /\ single_label_cols = <<>> /\ numerical_cols = <<>>
  /\ multi_label_cols = <<>> /\ key_cols = <<>> /\ target_col = None
  /\ df_all = None /\ random_index = None /\ df_train = None /\ df_eval = None
  /\ train_csv = Absent /\ eval_csv = Absent
  /\ schema_json = Absent /\ transforms_json = Absent

\* lst after the statement st, lst being the list named l
AfterStatement(lst, l, st) == IF st[1] = l THEN Append(lst, st[2]) ELSE lst

RunAppend ==
  /\ pc[1] = "registering"
  /\ Executed < Len(RegistrationCell)
  /\ LET st == RegistrationCell[Executed + 1]
     IN  /\ st[1] \in Lists
         /\ key_cols' = AfterStatement(key_cols, "key_cols", st)
         /\ single_label_cols' = AfterStatement(single_label_cols, "single_label_cols", st)
         /\ multi_label_cols' = AfterStatement(multi_label_cols, "multi_label_cols", st)
         /\ numerical_cols' = AfterStatement(numerical_cols, "numerical_cols", st)
  /\ pc' = <<"registering", pc[2] + 1>>
  /\ UNCHANGED <<target_col, error, stdout, headers, norm_vars, input_vars,
                 frame_vars, file_vars>>

RunTargetAssign ==
  /\ pc[1] = "registering"
  /\ Executed < Len(RegistrationCell)
  /\ LET st == RegistrationCell[Executed + 1]
     IN  /\ st[1] = "target_col"
         /\ target_col' = st[2]
  /\ pc' = <<"registering", pc[2] + 1>>
  /\ UNCHANGED <<key_cols, single_label_cols, multi_label_cols, numerical_cols,
                 error, stdout, headers, norm_vars, input_vars, frame_vars, file_vars>>

EndOfCell ==
  /\ pc[1] = "registering"
  /\ Executed = Len(RegistrationCell)
  /\ pc' = <<"registered", pc[2]>>
  /\ UNCHANGED <<error, stdout, headers, norm_vars, input_vars, bucket_vars,
                 frame_vars, file_vars>>

TableNext == RunAppend \/ RunTargetAssign \/ EndOfCell
SpecTable == TableInit /\ [][TableNext]_vars

\* C12: after all the statements of the table have run, no column name
\* occurs more than once across key_cols, single_label_cols, multi_label_cols
\* and numerical_cols together, 'Professional' is in none of the four lists
\* and is the one target column, so every configured column has exactly one
\* bucket.
AllLists == key_cols \o single_label_cols \o multi_label_cols \o numerical_cols
C12_BucketsMutuallyExclusive ==
  pc[1] = "registered" =>
     /\ \A c \in Range(AllLists) : Occurrences(c, AllLists) = 1
     /\ ~InList("Professional", AllLists)
     /\ target_col = "Professional"
     /\ \A c \in Range(AllLists) \union {target_col} : Registrations(c) = 1
     /\ \A i \in 1..Len(RegistrationCell) : Registrations(RegistrationCell[i][2]) = 1

C12_Witness ==
  /\ pc[1] = "registered"
  /\ Len(AllLists) + 1 = Len(TableRows)
  /\ InList("Respondent", key_cols) /\ InList("Currency", single_label_cols)
  /\ InList("Race", multi_label_cols) /\ InList("ExpectedSalary", numerical_cols)
  /\ target_col = "Professional"

====
